---------------------------- MODULE Spec2Model ----------------------------
(***************************************************************************)
(* Model of the two authoring scripts of the book:                         *)
(*   scripts/generate_book_index.py   (the index generator)                *)
(*   scripts/generate_book_figures.py (the figure generator)               *)
(* Text is modelled as sequences of one-character strings, so that the     *)
(* regular-expression search, the title extraction and the sorting of the  *)
(* terms are computed character by character as the Python code does.      *)
(***************************************************************************)
EXTENDS Integers, Sequences, FiniteSets, TLC

(***************************************************************************)
(* Characters                                                              *)
(***************************************************************************)
Uppers == <<"A","B","C","D","E","F","G","H","I","J","K","L","M",
            "N","O","P","Q","R","S","T","U","V","W","X","Y","Z">>

Lowers == <<"a","b","c","d","e","f","g","h","i","j","k","l","m",
            "n","o","p","q","r","s","t","u","v","w","x","y","z">>

Digits == <<"0","1","2","3","4","5","6","7","8","9">>

\* The printable ASCII characters in code-point order: codes 32 (space) to
\* 95 (underscore), and codes 97 ("a") to 126 (tilde).
PrintableLow ==
    <<" ","!","\"","#","$","%","&","'","(",")","*","+",",","-",".","/">>
    \o Digits \o <<":",";","<","=",">","?","@">> \o Uppers
    \o <<"[","\\","]","^","_">>

PrintableHigh == Lowers \o <<"{","|","}","~">>

Range(s) == {s[i] : i \in DOMAIN s}

Chars == Range(PrintableLow) \cup Range(PrintableHigh) \cup {"\n", "\t"}

\* ord(c)
Ord == [c \in Chars |->
          IF c = "\t" THEN 9
          ELSE IF c = "\n" THEN 10
          ELSE IF c \in Range(PrintableLow)
          THEN 31 + (CHOOSE i \in DOMAIN PrintableLow : PrintableLow[i] = c)
          ELSE 96 + (CHOOSE i \in DOMAIN PrintableHigh : PrintableHigh[i] = c)]

\* str.lower() on one character
Lower == [c \in Chars |->
          IF c \in Range(Uppers)
          THEN Lowers[CHOOSE i \in DOMAIN Uppers : Uppers[i] = c]
          ELSE c]

\* str.upper() on one character
Upper == [c \in Chars |->
          IF c \in Range(Lowers)
          THEN Uppers[CHOOSE i \in DOMAIN Lowers : Lowers[i] = c]
          ELSE c]

\* The class \w of the re module: letters, digits and the underscore.
IsWordChar == [c \in Chars |->
          c \in Range(Uppers) \cup Range(Lowers) \cup Range(Digits) \cup {"_"}]

\* The characters str.strip() removes when called without argument.
Whitespace == {" ", "\n", "\t"}

(***************************************************************************)
(* Module constants of generate_book_index.py                              *)
(***************************************************************************)
BOOK_DIR == <<"b","o","o","k">>

IGNORE_DIRS == { <<"i","m","a","g","e","s">>,
                 <<"b","a","c","k","_","m","a","t","t","e","r">> }

IGNORE_FILES ==
    { <<"i","n","d","e","x",".","m","d">>,
      <<"S","U","M","M","A","R","Y",".","m","d">>,
      <<"B","O","O","K","_","E","N","H","A","N","C","E","M","E","N","T","_",
        "S","U","G","G","E","S","T","I","O","N","S",".","m","d">>,
      <<"E","R","R","A","T","A",".","m","d">>,
      <<"L","I","C","E","N","S","E",".","m","d">> }

\* The index file, as the path components below the working directory.
INDEX_FILE == <<BOOK_DIR, <<"b","a","c","k","_","m","a","t","t","e","r">>,
                <<"i","n","d","e","x",".","m","d">> >>

EXPLICIT_TERMS == <<
       <<"B","C","C">>,
       <<"B","o","d","y","-","C","e","n","t","e","r","e","d"," ","C","u","b","i","c">>,
       <<"O","c","t","r","e","e">>,
       <<"M","o","r","t","o","n">>,
       <<"H","i","l","b","e","r","t">>,
       <<"S","F","C">>,
       <<"I","s","o","t","r","o","p","y">>,
       <<"A","n","i","s","o","t","r","o","p","y">>,
       <<"V","o","r","o","n","o","i">>,
       <<"T","r","u","n","c","a","t","e","d"," ","O","c","t","a","h","e","d","r","o","n">>,
       <<"P","a","r","i","t","y">>,
       <<"C","o","o","r","d","i","n","a","t","e">>,
       <<"L","a","t","t","i","c","e">>,
       <<"S","a","m","p","l","i","n","g">>,
       <<"N","y","q","u","i","s","t">>,
       <<"G","a","l","a","c","t","i","c","1","2","8">>,
       <<"I","n","d","e","x","6","4">>,
       <<"R","o","u","t","e","6","4">>,
       <<"H","i","l","b","e","r","t","6","4">>,
       <<"F","r","a","m","e"," ","R","e","g","i","s","t","r","y">>,
       <<"C","o","n","t","a","i","n","e","r">>,
       <<"S","t","r","e","a","m","i","n","g">>,
       <<"C","o","m","p","r","e","s","s","i","o","n">>,
       <<"D","e","l","t","a"," ","E","n","c","o","d","i","n","g">>,
       <<"S","I","M","D">>,
       <<"A","V","X","2">>,
       <<"N","E","O","N">>,
       <<"B","M","I","2">>,
       <<"G","P","U">>,
       <<"C","U","D","A">>,
       <<"M","e","t","a","l">>,
       <<"V","u","l","k","a","n">>,
       <<"P","a","t","h","f","i","n","d","i","n","g">>,
       <<"A","*">>,
       <<"D","i","j","k","s","t","r","a">>,
       <<"O","c","c","u","p","a","n","c","y"," ","G","r","i","d">>,
       <<"S","L","A","M">>,
       <<"G","e","o","s","p","a","t","i","a","l">>,
       <<"W","G","S","8","4">>,
       <<"E","C","E","F">>,
       <<"E","N","U">>,
       <<"G","I","S">>,
       <<"M","o","l","e","c","u","l","a","r"," ","D","y","n","a","m","i","c","s">>,
       <<"C","r","y","s","t","a","l","l","o","g","r","a","p","h","y">>,
       <<"C","F","D">>,
       <<"V","o","x","e","l">>,
       <<"L","O","D">>,
       <<"L","e","v","e","l"," ","o","f"," ","D","e","t","a","i","l">>,
       <<"P","r","o","c","e","d","u","r","a","l"," ","G","e","n","e","r","a","t","i","o","n">>,
       <<"D","i","s","t","r","i","b","u","t","e","d">>,
       <<"S","h","a","r","d","i","n","g">>,
       <<"A","r","r","o","w">>,
       <<"P","a","r","q","u","e","t">>,
       <<"M","a","c","h","i","n","e"," ","L","e","a","r","n","i","n","g">>,
       <<"G","N","N">>,
       <<"P","o","i","n","t"," ","C","l","o","u","d">>,
       <<"P","y","T","o","r","c","h">> >>

(***************************************************************************)
(* String helpers                                                          *)
(***************************************************************************)
\* s[a..b], empty when a > b
Slice(s, a, b) == [i \in 1..(b - a + 1) |-> s[a + i - 1]]

\* str.startswith
StartsWith(s, p) ==
    /\ Len(s) >= Len(p)
    /\ \A i \in 1..Len(p) : s[i] = p[i]

\* str.endswith
EndsWith(s, p) ==
    /\ Len(s) >= Len(p)
    /\ \A i \in 1..Len(p) : s[Len(s) - Len(p) + i] = p[i]

\* str.strip(chars): drops every leading and trailing character that is in
\* the set chars.
Strip(s, chars) ==
    LET keep == {i \in 1..Len(s) : s[i] \notin chars}
    IN  IF keep = {} THEN << >>
        ELSE LET a == CHOOSE i \in keep : \A j \in keep : i <= j
                 b == CHOOSE i \in keep : \A j \in keep : i >= j
             IN  Slice(s, a, b)

\* Iteration over a text file: the lines of the text, each with its
\* terminating newline, the last one possibly without.
RECURSIVE Lines(_)
Lines(s) ==
    IF s = << >> THEN << >>
    ELSE LET nl == {i \in 1..Len(s) : s[i] = "\n"}
         IN  IF nl = {} THEN <<s>>
             ELSE LET e == CHOOSE i \in nl : \A j \in nl : i <= j
                  IN  <<Slice(s, 1, e)>> \o Lines(Slice(s, e + 1, Len(s)))

\* Comparison of two strings as Python compares str: by code points,
\* a proper prefix being smaller.
RECURSIVE StrLess(_, _)
StrLess(s, t) ==
    IF t = << >> THEN FALSE
    ELSE IF s = << >> THEN TRUE
    ELSE IF Ord[Head(s)] # Ord[Head(t)] THEN Ord[Head(s)] < Ord[Head(t)]
    ELSE StrLess(Tail(s), Tail(t))

\* s.lower()
LowerStr(s) == [i \in 1..Len(s) |-> Lower[s[i]]]

(***************************************************************************)
(* re.search(r'\b' + re.escape(term) + r'\b', content, re.IGNORECASE)      *)
(***************************************************************************)
\* \b at position p, the gap before content[p]: exactly one of the two
\* neighbouring positions holds a word character; outside the text counts
\* as a non-word character.
WordAt(content, p) == p >= 1 /\ p <= Len(content) /\ IsWordChar[content[p]]

Boundary(content, p) == WordAt(content, p - 1) # WordAt(content, p)

\* The escaped term matches literally at position p, ignoring case.
LiteralAt(term, content, p) ==
    /\ p + Len(term) - 1 <= Len(content)
    /\ \A k \in 1..Len(term) : Lower[content[p + k - 1]] = Lower[term[k]]

TermSearch(term, content) ==
    \E p \in 1..Len(content) :
        /\ LiteralAt(term, content, p)
        /\ Boundary(content, p)
        /\ Boundary(content, p + Len(term))

(***************************************************************************)
(* get_title                                                               *)
(***************************************************************************)
HeadingMark == <<"#", " ">>

BaseName(p) == p[Len(p)]

get_title(p, text) ==
    LET lines == Lines(text)
        hs    == {i \in 1..Len(lines) : StartsWith(lines[i], HeadingMark)}
    IN  IF hs = {} THEN BaseName(p)
        ELSE LET first == CHOOSE i \in hs : \A j \in hs : i <= j
             IN  Strip(Strip(lines[first], {"#", " "}), Whitespace)

(***************************************************************************)
(* The book directory of the model                                         *)
(*                                                                         *)
(*   book/index.md  book/notes.txt                                         *)
(*   book/part/a.md  book/part/b.md                                        *)
(*   book/part/images/fig.md  book/part/images/sub/deep.md                 *)
(*   book/back_matter/glossary.md                                          *)
(*                                                                         *)
(* A path is the sequence of its components.  The chapters a.md and b.md   *)
(* hold any of the sample texts; every other file holds TextDraft, whose    *)
(* title and whose term Voxel occur in no sample text.                     *)
(***************************************************************************)
\* "# Chapter One\nuses an Octree and BCC lattice\n"
TextChapterOne ==
    <<"#"," ","C","h","a","p","t","e","r"," ","O","n","e","\n","u","s","e",
      "s"," ","a","n"," ","O","c","t","r","e","e"," ","a","n","d"," ","B",
      "C","C"," ","l","a","t","t","i","c","e","\n">>

\* "BCCX is not bcc_2\n#A*x avx2 Arrow\n": no heading line
TextNoHeading ==
    <<"B","C","C","X"," ","i","s"," ","n","o","t"," ","b","c","c","_","2",
      "\n","#","A","*","x"," ","a","v","x","2"," ","A","r","r","o","w","\n">>

\* "use A* or bcc here\n# #1 A* search #": the heading is the last line, unterminated
TextHashes ==
    <<"u","s","e"," ","A","*"," ","o","r"," ","b","c","c"," ","h","e","r",
      "e","\n","#"," ","#","1"," ","A","*"," ","s","e","a","r","c","h"," ",
      "#">>

\* "## Sub\n#  Chapter One \nBody-centered cubic (BCC)\n# #2 Two #\n"
TextSameTitle ==
    <<"#","#"," ","S","u","b","\n","#"," "," ","C","h","a","p","t","e","r",
      " ","O","n","e"," ","\n","B","o","d","y","-","c","e","n","t","e","r",
      "e","d"," ","c","u","b","i","c"," ","(","B","C","C",")","\n","#"," ",
      "#","2"," ","T","w","o"," ","#","\n">>

\* "# Draft\nVoxel and BCC\n"
TextDraft ==
    <<"#"," ","D","r","a","f","t","\n","V","o","x","e","l"," ","a","n","d",
      " ","B","C","C","\n">>

Texts == {TextChapterOne, TextNoHeading, TextHashes, TextSameTitle}

A_MD       == <<"a",".","m","d">>
B_MD       == <<"b",".","m","d">>
INDEX_MD   == <<"i","n","d","e","x",".","m","d">>
NOTES_TXT  == <<"n","o","t","e","s",".","t","x","t">>
FIG_MD     == <<"f","i","g",".","m","d">>
DEEP_MD    == <<"d","e","e","p",".","m","d">>
GLOSSARY_MD == <<"g","l","o","s","s","a","r","y",".","m","d">>
PART       == <<"p","a","r","t">>
IMAGES     == <<"i","m","a","g","e","s">>
BACK_MATTER == <<"b","a","c","k","_","m","a","t","t","e","r">>
SUB        == <<"s","u","b">>

RootDir == <<BOOK_DIR>>

\* The sub-directories and the files of every directory of the tree.
SubDirs ==
    (RootDir :> {PART, BACK_MATTER})
    @@ (<<BOOK_DIR, PART>> :> {IMAGES})
    @@ (<<BOOK_DIR, PART, IMAGES>> :> {SUB})
    @@ (<<BOOK_DIR, PART, IMAGES, SUB>> :> {})
    @@ (<<BOOK_DIR, BACK_MATTER>> :> {})

FilesIn ==
    (RootDir :> {INDEX_MD, NOTES_TXT})
    @@ (<<BOOK_DIR, PART>> :> {A_MD, B_MD})
    @@ (<<BOOK_DIR, PART, IMAGES>> :> {FIG_MD})
    @@ (<<BOOK_DIR, PART, IMAGES, SUB>> :> {DEEP_MD})
    @@ (<<BOOK_DIR, BACK_MATTER>> :> {GLOSSARY_MD})

DirPaths == DOMAIN SubDirs

FilePaths == UNION { {Append(d, f) : f \in FilesIn[d]} : d \in DirPaths }

Chapters == { <<BOOK_DIR, PART, A_MD>>, <<BOOK_DIR, PART, B_MD>> }

\* All orders in which a directory listing can return the members of S.
Orders(S) ==
    {s \in [1..Cardinality(S) -> S] : \A i, j \in DOMAIN s : s[i] = s[j] => i = j}

(***************************************************************************)
(* State                                                                   *)
(***************************************************************************)
VARIABLES
    listing,    \* file system: directory |-> [dirs, files] in listing order
    content,    \* file system: file path |-> text
    indexFile,  \* file system: the file INDEX_FILE, [exists, text]
    pc,         \* index generator: "idle", "scan", "done" or "crashed"
    runs,       \* index generator: number of runs started
    stack,      \* os.walk: directories still to be visited, next one first
    root,       \* os.walk: the directory being visited
    files,      \* os.walk: files of root not yet handled by the loop
    index,      \* scan_files: the term index, entries in insertion order
    path,       \* scan_files: path of the file handled last
    title,      \* scan_files: title of the file handled last
    opened,     \* the files opened for reading by the current run
    out,        \* index generator: the lines printed by the current run
    fpc,        \* figure generator: position in main
    outDir,     \* file system: state of OUTPUT_DIR
    images,     \* file system: names of the files in OUTPUT_DIR
    saved,      \* figure generator: the files savefig wrote, in order
    console     \* figure generator: the lines printed

ivars == <<listing, content, indexFile, pc, runs, stack, root, files, index,
           path, title, opened, out>>

fvars == <<fpc, outDir, images, saved, console>>

vars == <<ivars, fvars>>

(***************************************************************************)
(* scan_files                                                              *)
(***************************************************************************)
MD_SUFFIX == <<".","m","d">>

\* The test of the file loop: the file is passed over.
Skipped(file) == ~EndsWith(file, MD_SUFFIX) \/ file \in IGNORE_FILES

\* Variant: no directory is pruned.
FilterDirsNone(dirs) == dirs

\* dirs[:] = [d for d in dirs if d not in IGNORE_DIRS]
FilterDirs(dirs) ==
    LET Keep(d) == d \notin IGNORE_DIRS
    IN  SelectSeq(dirs, Keep)

\* os.path.join of the components of a path
RECURSIVE JoinPath(_)
JoinPath(p) ==
    IF Len(p) = 0 THEN << >>
    ELSE IF Len(p) = 1 THEN p[1]
    ELSE p[1] \o <<"/">> \o JoinPath(Tail(p))

\* os.path.relpath(path, BOOK_DIR) for a path below BOOK_DIR
RelPath(p) == JoinPath(Tail(p))

\* index[term].append(link) on the defaultdict: a new key goes to the end.
IndexAppend(idx, term, link) ==
    IF \E i \in DOMAIN idx : idx[i].term = term
    THEN [i \in DOMAIN idx |->
            IF idx[i].term = term
            THEN [idx[i] EXCEPT !.links = Append(@, link)]
            ELSE idx[i]]
    ELSE Append(idx, [term |-> term, links |-> <<link>>])

\* The loop over EXPLICIT_TERMS for one file, from the i-th term on.
RECURSIVE ScanTerms(_, _, _, _)
ScanTerms(idx, i, link, text) ==
    IF i > Len(EXPLICIT_TERMS) THEN idx
    ELSE ScanTerms(IF TermSearch(EXPLICIT_TERMS[i], text)
                   THEN IndexAppend(idx, EXPLICIT_TERMS[i], link)
                   ELSE idx,
                   i + 1, link, text)

(***************************************************************************)
(* generate_index_md                                                       *)
(* The document is the sequence of the pieces appended to md_content: the  *)
(* page title, a header per letter and a line per term with its links,     *)
(* each link a pair <<title, target>>.                                     *)
(***************************************************************************)
\* sorted(keys, key=lambda s: s.lower()): stable, by the lower-cased term
RECURSIVE InsertSorted(_, _)
InsertSorted(s, t) ==
    IF s = << >> THEN <<t>>
    ELSE IF StrLess(LowerStr(t), LowerStr(Head(s)))
    THEN <<t>> \o s
    ELSE <<Head(s)>> \o InsertSorted(Tail(s), t)

\* Variant: the keys stay in insertion order.
SortedTermsNone(keys) == keys

RECURSIVE SortedTerms(_)
SortedTerms(keys) ==
    IF keys = << >> THEN << >>
    ELSE InsertSorted(SortedTerms(Slice(keys, 1, Len(keys) - 1)),
                      keys[Len(keys)])

IndexKeys(idx) == [i \in DOMAIN idx |-> idx[i].term]

IndexLinks(idx, term) ==
    (CHOOSE e \in Range(idx) : e.term = term).links

\* Variant: every link is kept.
UniqueLinksNone(links) == links

\* unique_links[title] = path for every link: a title keeps the place of
\* its first link and the path of its last one.
UniqueLinks(links) ==
    LET firsts == {i \in DOMAIN links :
                     \A j \in 1..(i - 1) : links[j][1] # links[i][1]}
        Pos(k) == CHOOSE i \in firsts :
                     Cardinality({j \in firsts : j < i}) = k - 1
        Last(t) == CHOOSE i \in DOMAIN links :
                     /\ links[i][1] = t
                     /\ \A j \in DOMAIN links : links[j][1] = t => j <= i
    IN  [k \in 1..Cardinality(firsts) |->
            <<links[Pos(k)][1], links[Last(links[Pos(k)][1])][2]>>]

\* Variant: the target is the path relative to BOOK_DIR itself.
LinkToBare(link) == link

\* f"[{title}](../{path})"
LinkTo(link) == <<link[1], <<".",".","/">> \o link[2]>>

TermLine(idx, term) ==
    LET unique == UniqueLinks(IndexLinks(idx, term))
    IN  [kind |-> "term", term |-> term,
         links |-> [k \in DOMAIN unique |-> LinkTo(unique[k])]]

\* The loop over sorted_terms, from the i-th term on.
RECURSIVE RenderTerms(_, _, _, _)
RenderTerms(idx, terms, i, current_letter) ==
    IF i > Len(terms) THEN << >>
    ELSE LET term   == terms[i]
             letter == Upper[term[1]]
         IN  (IF letter # current_letter
              THEN <<[kind |-> "header", letter |-> letter]>>
              ELSE << >>)
             \o <<TermLine(idx, term)>>
             \o RenderTerms(idx, terms, i + 1, letter)

generate_index_md(idx) ==
    <<[kind |-> "title"]>>
    \o RenderTerms(idx, SortedTerms(IndexKeys(idx)), 1, "")

(***************************************************************************)
(* The index generator: main, with scan_files taken step by step           *)
(***************************************************************************)
\* Number of times the script is run on the same book directory.
MaxRuns == 2

\* The functions f on D with f[d] \in C[d] for every d.
RECURSIVE DepFuns(_, _)
DepFuns(D, C) ==
    IF D = {} THEN { << >> }
    ELSE LET d == CHOOSE x \in D : TRUE
         IN  { (d :> v) @@ f : v \in C[d], f \in DepFuns(D \ {d}, C) }

\* The listings os.walk can get for the directories of the tree.
Listings ==
    DepFuns(DirPaths,
            [d \in DirPaths |->
               {[dirs |-> ds, files |-> fs] :
                   ds \in Orders(SubDirs[d]), fs \in Orders(FilesIn[d])}])

\* The texts of the files.
Contents ==
    DepFuns(FilePaths,
            [p \in FilePaths |->
               IF p \in Chapters THEN Texts ELSE {TextDraft}])

\* A file left at INDEX_FILE by something else than the generator.
ForeignIndex == <<[kind |-> "foreign"]>>

InitIndex ==
    /\ listing \in Listings
    /\ content \in Contents
    /\ indexFile \in {[exists |-> FALSE, text |-> << >>],
                      [exists |-> TRUE, text |-> ForeignIndex]}
    /\ pc = "idle"
    /\ runs = 0
    /\ stack = << >>
    /\ root = << >>
    /\ files = << >>
    /\ index = << >>
    /\ path = << >>
    /\ title = << >>
    /\ opened = {}
    /\ out = << >>

fsvars == <<listing, content>>

\* main up to the first iteration of os.walk: the script is started.
StartRun ==
    /\ pc \in {"idle", "done", "crashed"}
    /\ runs < MaxRuns
    /\ runs' = runs + 1
    /\ pc' = "scan"
    /\ out' = <<[msg |-> "scanning"]>>
    /\ index' = << >>
    /\ stack' = <<RootDir>>
    /\ root' = << >>
    /\ files' = << >>
    /\ path' = << >>
    /\ title' = << >>
    /\ opened' = {}
    /\ UNCHANGED <<fsvars, indexFile>>
    /\ UNCHANGED fvars

\* os.walk yields the next directory; the loop body prunes its dirs.
WalkDir ==
    /\ pc = "scan"
    /\ files = << >>
    /\ stack # << >>
    /\ LET d    == Head(stack)
           dirs == FilterDirs(listing[d].dirs)
       IN  /\ root' = d
           /\ files' = listing[d].files
           /\ stack' = [i \in DOMAIN dirs |-> Append(d, dirs[i])] \o Tail(stack)
    /\ UNCHANGED <<fsvars, indexFile, pc, runs, index, path, title, opened,
                   out>>
    /\ UNCHANGED fvars

\* One iteration of the file loop on a file that is passed over.
SkipFile ==
    /\ pc = "scan"
    /\ files # << >>
    /\ Skipped(Head(files))
    /\ files' = Tail(files)
    /\ UNCHANGED <<fsvars, indexFile, pc, runs, stack, root, index, path,
                   title, opened, out>>
    /\ UNCHANGED fvars

\* One iteration of the file loop on a file that is scanned.
ScanFile ==
    /\ pc = "scan"
    /\ files # << >>
    /\ ~Skipped(Head(files))
    /\ LET p == Append(root, Head(files))
           t == get_title(p, content[p])
       IN  /\ path' = p
           /\ title' = t
           /\ opened' = opened \cup {p}
           /\ index' = ScanTerms(index, 1, <<t, RelPath(p)>>, content[p])
    /\ files' = Tail(files)
    /\ UNCHANGED <<fsvars, indexFile, pc, runs, stack, root, out>>
    /\ UNCHANGED fvars

\* Variant: the index built so far is written before the script ends.
IndexFileAfterErrorPartial(old, idx) ==
    [exists |-> TRUE, text |-> generate_index_md(idx)]

\* What a run leaves at INDEX_FILE when a read raises.
IndexFileAfterError(old, idx) == old

\* One iteration of the file loop in which opening, reading or decoding the
\* file raises, in get_title or in the read of the content: nothing catches
\* the exception and the script ends.
ReadError ==
    /\ pc = "scan"
    /\ files # << >>
    /\ ~Skipped(Head(files))
    /\ LET p == Append(root, Head(files))
       IN  /\ path' = p
           /\ opened' = opened \cup {p}
           /\ \E at \in {"get_title", "read"} :
                 title' = IF at = "read"
                          THEN get_title(p, content[p])
                          ELSE title
    /\ pc' = "crashed"
    /\ indexFile' = IndexFileAfterError(indexFile, index)
    /\ UNCHANGED <<fsvars, runs, stack, root, files, index, out>>
    /\ UNCHANGED fvars

\* Variant: the file is opened for appending.
WriteFileAppend(old, text) == [exists |-> TRUE, text |-> old.text \o text]

\* open(INDEX_FILE, 'w') and f.write(content)
WriteFile(old, text) == [exists |-> TRUE, text |-> text]

\* The walk is over: scan_files returns and main writes the index.
WriteIndex ==
    /\ pc = "scan"
    /\ files = << >>
    /\ stack = << >>
    /\ indexFile' = WriteFile(indexFile, generate_index_md(index))
    /\ out' = out \o <<[msg |-> "found", n |-> Len(index)],
                       [msg |-> "generated"]>>
    /\ pc' = "done"
    /\ UNCHANGED <<fsvars, runs, stack, root, files, index, path, title,
                   opened>>
    /\ UNCHANGED fvars

(***************************************************************************)
(* The figure generator                                                    *)
(***************************************************************************)
\* The plot functions in the order main calls them.
Charts == <<"plot_neighbor_lookup", "plot_memory_usage", "plot_isotropy">>

\* The file name each plot function passes to savefig.
ChartFile(i) ==
    <<"benchmark_neighbor_lookup.png",
      "benchmark_memory_efficiency.png",
      "benchmark_isotropy.png">>[i]

\* Files that may lie in OUTPUT_DIR before the run.
OldImages == {ChartFile(1), ChartFile(2), ChartFile(3), "cover.png"}

At(step, chart) == [step |-> step, chart |-> chart]

InitFigures ==
    /\ fpc = At("start", 0)
    /\ outDir \in {"missing", "dir", "file"}
    /\ images \in SUBSET OldImages
    /\ outDir # "dir" => images = {}
    /\ saved = << >>
    /\ console = << >>

\* Variant: the directory is not created.
ensure_output_dir_skip(d) == d

\* main up to the try statement: the first print and ensure_output_dir.
ensure_output_dir(d) == IF d = "missing" THEN "dir" ELSE d

Begin ==
    /\ fpc = At("start", 0)
    /\ console' = Append(console, [msg |-> "generating"])
    /\ outDir' = ensure_output_dir(outDir)
    /\ fpc' = At("render", 1)
    /\ UNCHANGED <<images, saved>>
    /\ UNCHANGED ivars

\* Variant: the exception is handled per chart and main goes on with the
\* next plot function.
AfterExceptionNext(chart) ==
    IF chart < Len(Charts) THEN At("render", chart + 1) ELSE At("done", chart)

\* Where main goes on when a call inside the try statement raises in the
\* plot function of the given chart.
AfterException(chart) == At("done", chart)

\* except Exception as e: the two prints, then main returns.
Caught(chart, step) ==
    /\ console' = console \o <<[msg |-> "error", e |-> step],
                               [msg |-> "hint"]>>
    /\ fpc' = AfterException(chart)

\* plt.figure, plt.bar, plt.title, plt.ylabel, plt.grid, plt.text
Render ==
    /\ fpc.step = "render"
    /\ fpc' = At("save", fpc.chart)
    /\ UNCHANGED <<outDir, images, saved, console>>
    /\ UNCHANGED ivars

RenderRaises ==
    /\ fpc.step = "render"
    /\ Caught(fpc.chart, "render")
    /\ UNCHANGED <<outDir, images, saved>>
    /\ UNCHANGED ivars

\* plt.savefig writes the file of the chart into OUTPUT_DIR.
SaveFig ==
    /\ fpc.step = "save"
    /\ outDir = "dir"
    /\ images' = images \cup {ChartFile(fpc.chart)}
    /\ saved' = Append(saved, ChartFile(fpc.chart))
    /\ fpc' = At("close", fpc.chart)
    /\ UNCHANGED <<outDir, console>>
    /\ UNCHANGED ivars

\* plt.savefig raises; when OUTPUT_DIR is a directory the file may have
\* been created already.
SaveFigRaises ==
    /\ fpc.step = "save"
    /\ \E left \in BOOLEAN :
          images' = IF left /\ outDir = "dir"
                    THEN images \cup {ChartFile(fpc.chart)}
                    ELSE images
    /\ Caught(fpc.chart, "save")
    /\ UNCHANGED <<outDir, saved>>
    /\ UNCHANGED ivars

\* plt.close
Close ==
    /\ fpc.step = "close"
    /\ fpc' = At("print", fpc.chart)
    /\ UNCHANGED <<outDir, images, saved, console>>
    /\ UNCHANGED ivars

CloseRaises ==
    /\ fpc.step = "close"
    /\ Caught(fpc.chart, "close")
    /\ UNCHANGED <<outDir, images, saved>>
    /\ UNCHANGED ivars

\* print("Generated ..."), then the next plot function or the end of main
Report ==
    /\ fpc.step = "print"
    /\ console' = Append(console, [msg |-> "generated",
                                   file |-> ChartFile(fpc.chart)])
    /\ fpc' = IF fpc.chart < Len(Charts)
              THEN At("render", fpc.chart + 1)
              ELSE At("done", 0)
    /\ UNCHANGED <<outDir, images, saved>>
    /\ UNCHANGED ivars

(***************************************************************************)
(* Specifications: each script runs on its own.                            *)
(***************************************************************************)
FiguresIdle ==
    /\ fpc = At("start", 0)
    /\ outDir = "missing"
    /\ images = {}
    /\ saved = << >>
    /\ console = << >>

IndexIdle ==
    /\ listing = CHOOSE l \in Listings : TRUE
    /\ content = [p \in FilePaths |-> TextDraft]
    /\ indexFile = [exists |-> FALSE, text |-> << >>]
    /\ pc = "idle"
    /\ runs = 0
    /\ stack = << >>
    /\ root = << >>
    /\ files = << >>
    /\ index = << >>
    /\ path = << >>
    /\ title = << >>
    /\ opened = {}
    /\ out = << >>

\* The index generator
Init == InitIndex /\ FiguresIdle

Next ==
    \/ StartRun
    \/ WalkDir
    \/ SkipFile
    \/ ScanFile
    \/ ReadError
    \/ WriteIndex

Spec == Init /\ [][Next]_vars

\* The figure generator
InitF == InitFigures /\ IndexIdle

NextF ==
    \/ Begin
    \/ Render
    \/ RenderRaises
    \/ SaveFig
    \/ SaveFigRaises
    \/ Close
    \/ CloseRaises
    \/ Report

SpecFigures == InitF /\ [][NextF]_vars

(***************************************************************************)
(* Properties                                                              *)
(***************************************************************************)
\* The index file holds the document written by the run that just ended.
Done == pc = "done"

Doc == indexFile.text

TermLines == {i \in DOMAIN Doc : Doc[i].kind = "term"}

Headers == {i \in DOMAIN Doc : Doc[i].kind = "header"}

\* The header a line of the document lies under (0: none).
HeaderOf(i) ==
    IF \E h \in Headers : h < i
    THEN CHOOSE h \in Headers : h < i /\ \A g \in Headers : g < i => g <= h
    ELSE 0

\* The pair (term, file) is recorded in the term index.
Recorded(idx, term, p) ==
    \E e \in Range(idx) :
        /\ e.term = term
        /\ \E l \in Range(e.links) : l[2] = RelPath(p)

\* A whole-word occurrence of the term, ignoring case: an occurrence that is
\* neither preceded nor followed by a word character.
WholeWordOccurs(term, text) ==
    \E p \in 1..Len(text) :
        /\ LiteralAt(term, text, p)
        /\ ~WordAt(text, p - 1)
        /\ ~WordAt(text, p + Len(term))

\* C1: every pair (vocabulary term, scanned file) is recorded exactly when
\* the text of the file has a whole-word occurrence of the term, ignoring
\* case; this is stated for every term, "A*" included.
C1_WholeWordRecorded ==
    Done =>
        \A p \in opened : \A t \in Range(EXPLICIT_TERMS) :
            Recorded(index, t, p) <=> WholeWordOccurs(t, content[p])

\* A file the exclusion rules cover: a name in IGNORE_FILES, a name that
\* does not end in ".md", or a directory named in IGNORE_DIRS on the way
\* from BOOK_DIR to the file.
Excluded(p) ==
    \/ BaseName(p) \in IGNORE_FILES
    \/ ~EndsWith(BaseName(p), MD_SUFFIX)
    \/ \E i \in 2..(Len(p) - 1) : p[i] \in IGNORE_DIRS

\* The links of the term index and of the written document.
IndexLinkSet == UNION {Range(e.links) : e \in Range(index)}

DocLinkSet ==
    IF indexFile.exists /\ Doc # << >> /\ Doc[1].kind = "title"
    THEN UNION {Range(Doc[i].links) : i \in TermLines}
    ELSE {}

\* C2: no excluded file is opened by scan_files, and neither the title nor
\* the path of an excluded file appears in a link of the index.
C2_ExcludedNeverScanned ==
    \A p \in FilePaths :
        Excluded(p) =>
            /\ p \notin opened
            /\ \A l \in IndexLinkSet :
                  /\ l[1] # get_title(p, content[p])
                  /\ l[2] # RelPath(p)
            /\ \A l \in DocLinkSet :
                  /\ l[1] # get_title(p, content[p])
                  /\ l[2] # <<".", ".", "/">> \o RelPath(p)

C2_Witness ==
    /\ Done
    /\ opened = Chapters
    /\ DocLinkSet # {}

\* C3: in the written document the line of a term carries every title of
\* the links recorded for the term, each exactly once.
C3_TitlesOncePerLine ==
    Done =>
        \A e \in Range(index) :
            \E i \in TermLines :
                /\ Doc[i].term = e.term
                /\ \A j \in TermLines : Doc[j].term = e.term => j = i
                /\ \A l \in Range(e.links) :
                      Cardinality({k \in DOMAIN Doc[i].links :
                                      Doc[i].links[k][1] = l[1]}) = 1
                /\ \A k \in DOMAIN Doc[i].links :
                      \E l \in Range(e.links) : l[1] = Doc[i].links[k][1]

\* Two files with the same title matched one term, whose line has one link.
C3_Witness ==
    /\ Done
    /\ \E e \in Range(index) :
          /\ Len(e.links) = 2
          /\ e.links[1][1] = e.links[2][1]
          /\ e.links[1][2] # e.links[2][2]
          /\ \E i \in TermLines :
                Doc[i].term = e.term /\ Len(Doc[i].links) = 1

\* C4: the headers of the written document are strictly ascending (so no
\* letter has two headers), the term lines are sorted by the lower-cased
\* term, and every term line lies under the header of the upper-cased first
\* character of its term.
C4_SortedSections ==
    Done =>
        /\ \A g, h \in Headers :
              g < h => Ord[Doc[g].letter] < Ord[Doc[h].letter]
        /\ \A i, j \in TermLines :
              i < j => ~StrLess(LowerStr(Doc[j].term), LowerStr(Doc[i].term))
        /\ \A i \in TermLines :
              /\ HeaderOf(i) # 0
              /\ Doc[HeaderOf(i)].letter = Upper[Doc[i].term[1]]

\* A document with several sections, one of them with two terms.
C4_Witness ==
    /\ Done
    /\ Cardinality(Headers) >= 3
    /\ \E i, j \in TermLines : i # j /\ HeaderOf(i) = HeaderOf(j)

\* The scanned files whose text the term was found in.
MatchedFiles(term) == {p \in opened : TermSearch(term, content[p])}

ChapterOne == <<"C","h","a","p","t","e","r"," ","O","n","e">>

\* The document has a line for the term under the given header, with a link
\* that shows the given title.
EntryUnder(letter, term, t) ==
    \E i \in TermLines :
        /\ Doc[i].term = term
        /\ HeaderOf(i) # 0
        /\ Doc[HeaderOf(i)].letter = letter
        /\ \E l \in Range(Doc[i].links) : l[1] = t

\* The file a link target leads to from the directory of INDEX_FILE.
Resolve(target) ==
    JoinPath(Slice(INDEX_FILE, 1, Len(INDEX_FILE) - 2))
    \o <<"/">> \o Slice(target, 4, Len(target))

\* C5: after a run a vocabulary term has a line in the document exactly when
\* it was found in a scanned file, it has one line only, and every link of
\* the line shows the title of a scanned file the term was found in and
\* targets "../" followed by the path of that file relative to BOOK_DIR,
\* which leads from the directory of INDEX_FILE to that file.
\* A scanned file "# Chapter One / uses an Octree and BCC lattice" gives a
\* BCC entry under B and an Octree entry under O, both showing its title.
C5_EntriesMatchScan ==
    Done =>
        /\ \A t \in Range(EXPLICIT_TERMS) :
              Cardinality({i \in TermLines : Doc[i].term = t})
                 = IF MatchedFiles(t) # {} THEN 1 ELSE 0
        /\ \A i \in TermLines : \A l \in Range(Doc[i].links) :
              \E p \in MatchedFiles(Doc[i].term) :
                  /\ l[1] = get_title(p, content[p])
                  /\ l[2] = <<".", ".", "/">> \o RelPath(p)
                  /\ Resolve(l[2]) = JoinPath(p)
        /\ (\E p \in opened : content[p] = TextChapterOne) =>
              /\ EntryUnder("B", <<"B","C","C">>, ChapterOne)
              /\ EntryUnder("O", <<"O","c","t","r","e","e">>, ChapterOne)

C5_Witness ==
    /\ Done
    /\ \E p \in opened : content[p] = TextChapterOne
    /\ EntryUnder("B", <<"B","C","C">>, ChapterOne)
    /\ EntryUnder("O", <<"O","c","t","r","e","e">>, ChapterOne)

\* The text of the first line that starts with "# ", without these two
\* characters and trimmed; the base name when there is no such line.
HeadingText(p, text) ==
    LET lines == Lines(text)
        hs    == {i \in 1..Len(lines) : StartsWith(lines[i], HeadingMark)}
    IN  IF hs = {} THEN BaseName(p)
        ELSE LET first == CHOOSE i \in hs : \A j \in hs : i <= j
             IN  Strip(Slice(lines[first], 3, Len(lines[first])), Whitespace)

\* C6: the title of a scanned file is the text of its first "# " line with
\* only the heading marker removed and the surrounding whitespace trimmed,
\* also when the text begins or ends with "#"; it is the base name exactly
\* when no line starts with "# ".
C6_TitleIsHeadingText ==
    (pc = "scan" /\ path # << >>) =>
        title = HeadingText(path, content[path])

\* C9: a read that raises in get_title or in the read of the content ends
\* the run: the step leaves the index file as it was, the ended run scans no
\* further file and writes nothing (only a new run of the script follows),
\* and the index file changes only in the step that follows the scan of the
\* last file of the walk.
C9_ReadErrorAborts ==
    [][ /\ (pc = "scan" /\ pc' = "crashed") => indexFile' = indexFile
        /\ pc = "crashed" =>
              /\ indexFile' = indexFile
              /\ runs' = runs + 1
              /\ pc' = "scan"
        /\ indexFile' # indexFile =>
              /\ pc = "scan"
              /\ pc' = "done"
              /\ files = << >>
              /\ stack = << >>
              /\ opened = Chapters
      ]_vars

\* A read raised after a file had been scanned and had put terms into the
\* index; there is no index file.
C9_Witness ==
    /\ pc = "crashed"
    /\ index # << >>
    /\ Cardinality(opened) = 2
    /\ ~indexFile.exists

\* The index file holds a document written by the generator.
Generated ==
    /\ indexFile.exists
    /\ indexFile.text # << >>
    /\ indexFile.text[1].kind = "title"

Reported(i) == [msg |-> "generated", file |-> ChartFile(i)]

ErrorLines == {i \in DOMAIN console : console[i].msg = "error"}

\* C7: once a call of a plot function has raised, main has come to its end
\* (the exception is caught), the message with the exception and the hint
\* are the last lines printed, the charts before the failing one are written
\* and reported, and no chart after the failing one is written or reported.
C7_FailureStopsCharts ==
    \A i \in ErrorLines :
        /\ fpc.step = "done"
        /\ fpc.chart \in DOMAIN Charts
        /\ i = Len(console) - 1
        /\ console[i + 1].msg = "hint"
        /\ \A k \in DOMAIN Charts :
              /\ k < fpc.chart =>
                    /\ ChartFile(k) \in images
                    /\ ChartFile(k) \in Range(saved)
                    /\ Reported(k) \in Range(console)
              /\ k >= fpc.chart => Reported(k) \notin Range(console)
              /\ k > fpc.chart => ChartFile(k) \notin Range(saved)

\* The second chart failed in a directory that was empty: the first chart
\* is there, the third is not.
C7_Witness ==
    /\ ErrorLines # {}
    /\ fpc = At("done", 2)
    /\ ChartFile(1) \in images
    /\ ChartFile(3) \notin images

\* C8: the output directory exists from the end of ensure_output_dir on,
\* hence before any chart is saved; an existing directory keeps its files;
\* the files saved are a prefix of the three fixed names in the fixed
\* order; and a run in which no call raises ends with exactly the three
\* files saved, each once, all in the directory.
C8_ThreeFiguresSaved ==
    /\ [](/\ fpc.step # "start" => outDir # "missing"
          /\ saved # << >> => outDir = "dir"
          /\ Len(saved) <= Len(Charts)
          /\ \A k \in DOMAIN saved : saved[k] = ChartFile(k)
          /\ fpc = At("done", 0) =>
                /\ saved = <<"benchmark_neighbor_lookup.png",
                             "benchmark_memory_efficiency.png",
                             "benchmark_isotropy.png">>
                /\ Range(saved) \subseteq images
                /\ outDir = "dir")
    /\ [][outDir = "dir" => (outDir' = "dir" /\ images \subseteq images')]_vars

C8_Witness ==
    /\ fpc = At("done", 0)
    /\ Len(saved) = 3
    /\ "cover.png" \in images

=============================================================================
